---- MODULE Spec2Model ----
(***************************************************************************)
(* FifoFileCache (storage/src/lib.rs): a fixed-capacity, file-backed FIFO  *)
(* page cache.  Writers serialize behind the manager mutex; readers take   *)
(* no lock and validate what they read against the per-page version.       *)
(*                                                                         *)
(* Granularity: every access to shared state (a version cell, one byte of  *)
(* the backing file, the mutex) is a step of its own, so a reader's bytes  *)
(* and its version load interleave freely with the writer's bump and       *)
(* bytes.  Machine words are scaled down to WordMod values.                *)
(***************************************************************************)
EXTENDS Integers, Sequences, FiniteSets, TLC

\* ---------------------------------------------------------------- bounds
MaxPageSize == 2      \* page sizes 2..MaxPageSize are constructed
MaxPages    == 3      \* page counts 2..MaxPages are constructed
MaxWrites   == 4      \* write calls that get past the size assertion
WordBits    == 7      \* scaled width of u64 / usize

WordMod == 2 ^ WordBits
Byte    == 256

Free == "free"

\* ------------------------------------------------------------ the values
\* A Value is a fixed-width unsigned integer field (width 0 is a unit
\* struct); bincode's fixint encoding lays it out little-endian with no
\* length prefix, and decodes the leading bytes of a buffer.
RECURSIVE encode(_, _)
encode(n, w) == IF w = 0 THEN <<>> ELSE <<n % Byte>> \o encode(n \div Byte, w - 1)

serialize(v) == encode(v.n, v.w)

RECURSIVE decode(_)
decode(s) == IF s = <<>> THEN 0 ELSE Head(s) + Byte * decode(Tail(s))

\* a decoder that takes the bytes in the opposite order
deserialize_be(buf, w) ==
    [w |-> w, n |-> decode([i \in 1..w |-> buf[w + 1 - i]])]

deserialize(buf, w) == [w |-> w, n |-> decode(SubSeq(buf, 1, w))]

\* the value of width w a caller writes; its bytes differ from those of
\* every other width at every position
ValueOfWidth(w) == [w |-> w, n |-> IF w = 0 THEN 0 ELSE decode([i \in 1..w |-> 2 * w + i])]

\* ------------------------------------------------------------- the state
VARIABLES
    page_size,      \* FifoFileCache.page_size = WriteManger.page_size
    pages,          \* the version vector, page id -> version
    write_page_id,  \* WriteManger.write_page_id
    write_offset,   \* WriteManger.write_offset
    file_pos,       \* position of WriteManger.file (the write handle)
    file,           \* contents of the backing file, a sequence of bytes
    manager,        \* holder of the Mutex<WriteManger>, or Free
    wr,             \* per writer thread: position in write and its locals
    rd,             \* per reader thread: position in read and its locals
    issued          \* the WriteResponses returned so far, with their values

vars == <<page_size, pages, write_page_id, write_offset, file_pos, file,
          manager, wr, rd, issued>>

page_num == Cardinality(DOMAIN pages)

\* the threads that call write, and those that call read
Writers == DOMAIN wr
Readers == DOMAIN rd

NoValue == [w |-> 0, n |-> 0]
NoRequest == [page_id |-> 0, page_offset |-> 0, version |-> 0, length |-> 0]
NoResult == [kind |-> "none", v |-> NoValue]
Panic == [kind |-> "panic", v |-> NoValue]
Miss == [kind |-> "miss", v |-> NoValue]
Some(value) == [kind |-> "some", v |-> value]

\* values handed to write: a unit, one byte, a full page, one byte too many
Values == {ValueOfWidth(w) : w \in {0, 1, page_size, page_size + 1}}

\* new without its assertion that the capacity exceeds one page
new_anycapacity(ps, capacity, ws, rs) ==
    /\ ps > 0
    /\ capacity % ps = 0
    /\ page_size = ps
    /\ pages = [i \in 0..((capacity \div ps) - 1) |-> 0]
    /\ write_page_id = 0
    /\ write_offset = 0
    /\ file_pos = 0
    /\ file = <<>>
    /\ manager = Free
    /\ wr = [t \in ws |-> [pc |-> "idle", val |-> NoValue, rest |-> <<>>]]
    /\ rd = [r \in rs |-> [pc |-> "idle", req |-> NoRequest, src |-> 0,
                                buf |-> <<>>, res |-> NoResult]]
    /\ issued = <<>>

\* FifoFileCache::new, and the threads ws and rs that share the cache
new(ps, capacity, ws, rs) ==
    /\ ps > 0
    /\ capacity % ps = 0
    /\ capacity > ps
    /\ page_size = ps
    /\ pages = [i \in 0..((capacity \div ps) - 1) |-> 0]
    /\ write_page_id = 0
    /\ write_offset = 0
    /\ file_pos = 0
    /\ file = <<>>
    /\ manager = Free
    /\ wr = [t \in ws |-> [pc |-> "idle", val |-> NoValue, rest |-> <<>>]]
    /\ rd = [r \in rs |-> [pc |-> "idle", req |-> NoRequest, src |-> 0,
                                buf |-> <<>>, res |-> NoResult]]
    /\ issued = <<>>

\* One writer and one reader.  Readers write no shared state, so what one
\* reader can observe does not depend on how many others run beside it.
Init == \E ps \in 2..MaxPageSize, n \in 2..MaxPages : new(ps, n * ps, {"w1"}, {"r1"})

\* ------------------------------------------------------------ the writer
Started == Len(issued) + Cardinality({t \in Writers : wr[t].pc \in {"lock", "data"}})

\* write without its size assertion
write_unchecked(t, v) ==
    /\ wr[t].pc \in {"idle", "panic"}
    /\ Started < MaxWrites
    /\ wr' = [wr EXCEPT ![t] = [pc |-> "lock", val |-> v, rest |-> serialize(v)]]
    /\ UNCHANGED <<page_size, pages, write_page_id, write_offset, file_pos,
                   file, manager, rd, issued>>

\* FifoFileCache::write up to the lock: serialize and assert the size
write(t, v) ==
    /\ wr[t].pc \in {"idle", "panic"}
    /\ LET serialized == serialize(v) IN
       IF Len(serialized) <= page_size
       THEN /\ Started < MaxWrites
            /\ wr' = [wr EXCEPT ![t] = [pc |-> "lock", val |-> v, rest |-> serialized]]
       ELSE wr' = [wr EXCEPT ![t] = [pc |-> "panic", val |-> v, rest |-> <<>>]]
    /\ UNCHANGED <<page_size, pages, write_page_id, write_offset, file_pos,
                   file, manager, rd, issued>>

\* a page-full test that also advances when the value fits exactly
NeedsMove_ge(offset, value_size, ps) == offset + value_size >= ps

\* a page-full test that forgets the size of the value
NeedsMove_nosize(offset, value_size, ps) == offset >= ps

NeedsMove(offset, value_size, ps) == offset + value_size > ps

\* a cursor that walks the pages downwards
NextPageId_back(id, n) == (id + n - 1) % n

NextPageId(id, n) == (id + 1) % n

\* a bump that leaves the version as it was
Bump_none(version) == version

\* a bump by two
Bump_two(version) == (version + 2) % WordMod

Bump(version) == (version + 1) % WordMod

\* write_move entered without waiting for the mutex
write_move_nolock(t) ==
    /\ wr[t].pc = "lock"
    /\ manager' = t
    /\ wr' = [wr EXCEPT ![t].pc = "data"]
    /\ IF NeedsMove(write_offset, Len(wr[t].rest), page_size)
       THEN LET next_page_id == NextPageId(write_page_id, page_num) IN
            /\ pages' = [pages EXCEPT ![next_page_id] = Bump(@)]
            /\ write_page_id' = next_page_id
            /\ write_offset' = 0
            /\ file_pos' = next_page_id * page_size
       ELSE UNCHANGED <<pages, write_page_id, write_offset, file_pos>>
    /\ UNCHANGED <<page_size, file, rd, issued>>

\* manager.lock() and WriteManger::write_move
write_move(t) ==
    /\ wr[t].pc = "lock"
    /\ manager = Free
    /\ manager' = t
    /\ wr' = [wr EXCEPT ![t].pc = "data"]
    /\ IF NeedsMove(write_offset, Len(wr[t].rest), page_size)
       THEN LET next_page_id == NextPageId(write_page_id, page_num) IN
            /\ pages' = [pages EXCEPT ![next_page_id] = Bump(@)]
            /\ write_page_id' = next_page_id
            /\ write_offset' = 0
            /\ file_pos' = next_page_id * page_size
       ELSE UNCHANGED <<pages, write_page_id, write_offset, file_pos>>
    /\ UNCHANGED <<page_size, file, rd, issued>>

\* a write handle that appends whatever its position is
PutByte_append(f, pos, b) == Append(f, b)

\* the file after one byte b is written at position pos (holes read as 0)
PutByte(f, pos, b) ==
    [i \in 1..(IF pos + 1 > Len(f) THEN pos + 1 ELSE Len(f)) |->
        IF i = pos + 1 THEN b ELSE IF i <= Len(f) THEN f[i] ELSE 0]

\* one byte of file.write_all(&data) in WriteManger::write_data
write_all(t) ==
    /\ wr[t].pc = "data"
    /\ manager = t
    /\ wr[t].rest # <<>>
    /\ file' = PutByte(file, file_pos, Head(wr[t].rest))
    /\ file_pos' = file_pos + 1
    /\ wr' = [wr EXCEPT ![t].rest = Tail(@)]
    /\ UNCHANGED <<page_size, pages, write_page_id, write_offset, manager, rd, issued>>

\* the rest of WriteManger::write_data: the response, the offset, the unlock
write_data(t) ==
    /\ wr[t].pc = "data"
    /\ manager = t
    /\ wr[t].rest = <<>>
    /\ LET data_len == Len(serialize(wr[t].val))
           response == [page_id     |-> write_page_id,
                        page_offset |-> write_offset,
                        version     |-> pages[write_page_id],
                        length      |-> data_len]
       IN /\ write_offset' = write_offset + data_len
          /\ issued' = Append(issued, [r |-> response, v |-> wr[t].val])
    /\ manager' = Free
    /\ wr' = [wr EXCEPT ![t].pc = "idle"]
    /\ UNCHANGED <<page_size, pages, write_page_id, file_pos, file, rd>>

\* ------------------------------------------------------------ the reader
\* u64 addition: an overflow panics in a build with overflow checks and
\* wraps in one without
Overflows(a, b) == a + b >= WordMod
WrapAdd(a, b) == (a + b) % WordMod

\* the three assertions of read; checked says whether overflow checks are on
GeometryOk(req, ps, n, checked) ==
    /\ req.length <= ps
    /\ req.page_id < n
    /\ ~(checked /\ Overflows(req.page_offset, req.length))
    /\ WrapAdd(req.page_offset, req.length) <= ps

\* let offset = request.page_id * self.page_size as u64 + request.page_offset
ReadOffset(req, ps) == WrapAdd(req.page_id * ps, req.page_offset)

\* lseek rejects a position that is negative as an i64
SeekOk(offset) == offset < WordMod \div 2

\* receipts a caller makes up rather than gets from write
Receipt(p, o, v, l) == [page_id |-> p, page_offset |-> o, version |-> v, length |-> l]

Fabricated ==
    UNION {{Receipt(1, 0, v, 1),                  \* inside page 1
            Receipt(page_num, 0, v, 1),           \* no such page
            Receipt(1, 0, v, page_size + 1),      \* longer than a page
            Receipt(1, page_size, v, 1),          \* across the page end
            Receipt(1, WordMod - 1, v, 1)}        \* offset + length overflows
           : v \in {0, 1}}

\* FifoFileCache::read up to the seek: the assertions, the open, the seek
read(r, req, src) ==
    /\ rd[r].pc \in {"idle", "done"}
    /\ \E checked \in BOOLEAN :
         IF /\ GeometryOk(req, page_size, page_num, checked)
            /\ ~(checked /\ Overflows(req.page_id * page_size, req.page_offset))
            /\ SeekOk(ReadOffset(req, page_size))
         THEN rd' = [rd EXCEPT ![r] = [pc |-> "read", req |-> req, src |-> src,
                                       buf |-> <<>>, res |-> NoResult]]
         ELSE rd' = [rd EXCEPT ![r] = [pc |-> "done", req |-> req, src |-> src,
                                       buf |-> <<>>, res |-> Panic]]
    /\ UNCHANGED <<page_size, pages, write_page_id, write_offset, file_pos,
                   file, manager, wr, issued>>

\* one byte of file.read_exact(&mut buffer); the end of the file is an error
read_exact(r) ==
    /\ rd[r].pc = "read"
    /\ Len(rd[r].buf) < rd[r].req.length
    /\ LET pos == ReadOffset(rd[r].req, page_size) + Len(rd[r].buf) IN
       IF pos < Len(file)
       THEN rd' = [rd EXCEPT ![r].buf = Append(@, file[pos + 1])]
       ELSE rd' = [rd EXCEPT ![r].pc = "done", ![r].buf = <<>>, ![r].res = Panic]
    /\ UNCHANGED <<page_size, pages, write_page_id, write_offset, file_pos,
                   file, manager, wr, issued>>

\* a check with its condition inverted
VersionMatches_ne(page_version, version) == page_version # version

\* a check that accepts every version
VersionMatches_always(page_version, version) == TRUE

\* a check that only rejects a page older than the receipt
VersionMatches_ge(page_version, version) == page_version >= version

VersionMatches(page_version, version) == page_version = version

\* the version load after the bytes, and the decision
read_check(r) ==
    /\ rd[r].pc = "read"
    /\ Len(rd[r].buf) = rd[r].req.length
    /\ LET page_version == pages[rd[r].req.page_id] IN
       IF ~VersionMatches(page_version, rd[r].req.version)
       THEN rd' = [rd EXCEPT ![r].pc = "done", ![r].buf = <<>>, ![r].res = Miss]
       ELSE rd' = [rd EXCEPT ![r].pc = "done", ![r].buf = <<>>,
                             ![r].res = Some(deserialize(rd[r].buf, rd[r].req.length))]
    /\ UNCHANGED <<page_size, pages, write_page_id, write_offset, file_pos,
                   file, manager, wr, issued>>

Next ==
    \/ \E t \in Writers, v \in Values : write(t, v)
    \/ \E t \in Writers : write_move(t)
    \/ \E t \in Writers : write_all(t)
    \/ \E t \in Writers : write_data(t)
    \/ \E r \in Readers, k \in DOMAIN issued : read(r, issued[k].r, k)
    \/ \E r \in Readers, req \in Fabricated : read(r, req, 0)
    \/ \E r \in Readers : read_exact(r)
    \/ \E r \in Readers : read_check(r)

Spec == Init /\ [][Next]_vars
\* ============================================================ the claims
IsRead(r) == rd[r].pc = "done" /\ rd[r].src # 0
Writing == {t \in Writers : wr[t].pc \in {"lock", "data"}}

\* C1: every read of a receipt issued by write that returns a value returns
\* the value written under that receipt, whatever the interleaving of the
\* reader's bytes and version load with the writer's bump and bytes.
ReaderWriterSafety ==
    \A r \in Readers :
        IsRead(r) /\ rd[r].res.kind = "some" => rd[r].res.v = issued[rd[r].src].v

\* a read that returned its value although its page has since been reused
ReaderWriterSafetyWitness ==
    \E r \in Readers :
        /\ IsRead(r) /\ rd[r].res.kind = "some" /\ rd[r].req.length > 0
        /\ pages[rd[r].req.page_id] > rd[r].req.version

\* C2: with no write between write(v) returning r and read(r), read(r)
\* returns v, for every v whose serialized length is at most the page size.
RoundTrip ==
    \A r \in Readers :
        IsRead(r) /\ rd[r].src = Len(issued) /\ Writing = {}
            => rd[r].res = Some(issued[rd[r].src].v)

\* the latest receipt, of a value that fills a page, read back
RoundTripWitness ==
    \E r \in Readers :
        /\ IsRead(r) /\ rd[r].src = Len(issued) /\ Writing = {}
        /\ rd[r].req.length = page_size /\ rd[r].res.kind = "some"
        /\ Len(issued) > 1

\* C3: once the cursor has wrapped back into the page of an issued receipt
\* and bumped its version, the page stays bumped and every read of the
\* receipt that completes returns miss.
Wrapped(k) == pages[issued[k].r.page_id] > issued[k].r.version

StalenessPermanent ==
    [][\A k \in DOMAIN issued :
          Wrapped(k) =>
            /\ Wrapped(k)'
            /\ \A r \in Readers :
                  rd[r].src = k /\ rd[r].pc = "read" /\ rd'[r].pc = "done"
                      => rd'[r].res = Miss]_vars

\* a miss for a receipt of page 0 after the cursor has come round to that
\* page again, and has moved on since
StalenessPermanentWitness ==
    \E r \in Readers :
        /\ IsRead(r) /\ rd[r].res = Miss
        /\ rd[r].req.page_id = 0 /\ write_page_id # 0
        /\ pages[0] > rd[r].req.version

\* C4: the write cursor starts at page 0 and every change of it goes from
\* page i to page (i + 1) mod N.
PositionalFifo ==
    /\ write_page_id = 0
    /\ [][write_page_id' # write_page_id
            => write_page_id' = (write_page_id + 1) % page_num]_vars

\* the cursor back on page 0 of a three-page cache
PositionalFifoWitness ==
    page_num = 3 /\ write_page_id = 0 /\ pages[0] = 1 /\ pages[2] = 1

\* C5: every version starts at 0; a step leaves it alone or adds exactly 1,
\* and adds only when the cursor advances into that page.
VersionMonotonic ==
    /\ \A i \in DOMAIN pages : pages[i] = 0
    /\ [][\A i \in DOMAIN pages :
            \/ pages'[i] = pages[i]
            \/ /\ pages'[i] = pages[i] + 1
               /\ write_page_id # i
               /\ write_page_id' = i]_vars

\* a page bumped twice
VersionMonotonicWitness == \E i \in DOMAIN pages : pages[i] = 2

\* C6: every receipt write returns lies inside one page of the file, and
\* no read of such a receipt fails an assertion.
NoStraddling ==
    /\ \A k \in DOMAIN issued :
          /\ issued[k].r.page_id < page_num
          /\ issued[k].r.page_offset + issued[k].r.length <= page_size
    /\ \A r \in Readers : rd[r].src # 0 => rd[r].res # Panic

\* a receipt that ends exactly at the page end, not at offset 0, read back
NoStraddlingWitness ==
    \E r \in Readers :
        /\ IsRead(r) /\ rd[r].req.page_offset > 0
        /\ rd[r].req.page_offset + rd[r].req.length = page_size

\* C7: a read that gets as far as its version load returns miss iff the
\* version it loads differs from the receipt's, and otherwise returns the
\* bytes it read, deserialized.
ReadDecides(r) ==
    /\ rd[r].pc = "read"
    /\ rd'[r].pc = "done"
    /\ Len(rd[r].buf) = rd[r].req.length

MissIffVersionDiffers ==
    [][\A r \in Readers :
          ReadDecides(r) =>
            /\ rd'[r].res = Miss <=> pages[rd[r].req.page_id] # rd[r].req.version
            /\ pages[rd[r].req.page_id] = rd[r].req.version
                  => rd'[r].res = Some(deserialize(rd[r].buf, rd[r].req.length))]_vars

\* a made-up receipt redeemed because its version happens to match
MissIffVersionDiffersWitness ==
    \E r \in Readers :
        /\ rd[r].pc = "done" /\ rd[r].src = 0 /\ rd[r].res.kind = "some"
        /\ pages[rd[r].req.page_id] = rd[r].req.version
\* C8 (scenario S2): an 8-byte page size, two pages, 8-byte values.
InitS2 == new(8, 16, {"w1"}, {"r1"})

S2Value(i) == [w |-> 8, n |-> CASE i = 1 -> 123 [] i = 2 -> 456 [] OTHER -> 789]

NextS2 ==
    \/ \E t \in Writers : Len(issued) < 3 /\ write(t, S2Value(Len(issued) + 1))
    \/ \E t \in Writers : write_move(t)
    \/ \E t \in Writers : write_all(t)
    \/ \E t \in Writers : write_data(t)
    \/ \E r \in Readers, k \in DOMAIN issued : read(r, issued[k].r, k)
    \/ \E r \in Readers : read_exact(r)
    \/ \E r \in Readers : read_check(r)

SpecS2 == InitS2 /\ [][NextS2]_vars

S2Receipts(second) ==
    /\ Len(issued) >= 1 => issued[1] = [r |-> Receipt(0, 0, 0, 8), v |-> S2Value(1)]
    /\ Len(issued) >= 2 => issued[2] = [r |-> second, v |-> S2Value(2)]
    /\ Len(issued) >= 3 => issued[3] = [r |-> Receipt(0, 0, 1, 8), v |-> S2Value(3)]

S2FirstIsMiss ==
    \A r \in Readers :
        Len(issued) >= 3 /\ rd[r].src = 1 /\ rd[r].pc = "read" /\ rd'[r].pc = "done"
            => rd'[r].res = Miss

\* C8 as stated: the receipts are {0,0,0,8}, {1,0,0,8}, {0,0,1,8} and a read
\* of the first receipt after the third write is a miss.
ScenarioS2Original ==
    /\ [](S2Receipts(Receipt(1, 0, 0, 8)))
    /\ [][S2FirstIsMiss]_vars

\* C8 amended: the second receipt is {1,0,1,8}, since advancing into page 1
\* bumps its version before the receipt is made; the rest as stated.
ScenarioS2 ==
    /\ [](S2Receipts(Receipt(1, 0, 1, 8)))
    /\ [][S2FirstIsMiss]_vars

\* the first receipt read as a miss after the three writes
ScenarioS2Witness ==
    /\ Len(issued) = 3
    /\ \E r \in Readers : IsRead(r) /\ rd[r].src = 1 /\ rd[r].res = Miss

\* C9: a write whose serialized value is longer than a page fails without
\* taking the mutex and leaves cursor, versions and file as they were.
OversizeWriteFails ==
    [][\A t \in Writers :
          /\ wr[t].pc \in {"idle", "panic"}
          /\ wr'[t] # wr[t]
          /\ Len(serialize(wr'[t].val)) > page_size
          => /\ wr'[t].pc = "panic"
             /\ manager # t
             /\ UNCHANGED <<manager, write_page_id, write_offset, pages,
                            file, file_pos, issued>>]_vars

\* a failed write after the file has been written and a page reused
OversizeWriteFailsWitness ==
    \E t \in Writers :
        /\ wr[t].pc = "panic"
        /\ Len(serialize(wr[t].val)) > page_size
        /\ file # <<>>
        /\ pages[0] > 0

\* C10: a read of a receipt with page_id >= N, or length > P, or
\* page_offset + length > P fails at once, whatever its version: it reads
\* no byte, returns neither miss nor value, and changes no state.
BadGeometry(req) ==
    \/ req.page_id >= page_num
    \/ req.length > page_size
    \/ req.page_offset + req.length > page_size

BadGeometryFatal ==
    [][\A r \in Readers :
          /\ rd[r].pc \in {"idle", "done"}
          /\ rd'[r] # rd[r]
          /\ BadGeometry(rd'[r].req)
          => /\ rd'[r].pc = "done"
             /\ rd'[r].res = Panic
             /\ UNCHANGED <<manager, write_page_id, write_offset, pages,
                            file, file_pos, issued, wr>>]_vars
\* C11: every write increments by 1 the version of the page it writes to,
\* so the version of a page is at least the number of writes made to it.
WritesTo(p) == {k \in DOMAIN issued : issued[k].r.page_id = p}

EveryWriteBumps ==
    \A p \in DOMAIN pages : pages[p] >= Cardinality(WritesTo(p))

\* C12: the bytes of every issued receipt whose page version is still the
\* receipt's are in the file, at page_id * P + page_offset, exactly as
\* serialized.
Redeemable(k) == pages[issued[k].r.page_id] = issued[k].r.version

StoredAt(k) ==
    LET r == issued[k].r
        start == r.page_id * page_size + r.page_offset
    IN /\ start + r.length <= Len(file)
       /\ SubSeq(file, start + 1, start + r.length) = serialize(issued[k].v)

StoredBytes == \A k \in DOMAIN issued : Redeemable(k) => StoredAt(k)

\* a redeemable receipt in a page the cursor has left, while a later write
\* is putting bytes into the file
StoredBytesWitness ==
    \E k \in DOMAIN issued :
        /\ Redeemable(k) /\ issued[k].r.length > 0
        /\ issued[k].r.page_id # write_page_id
        /\ pages[0] > 0
        /\ \E t \in Writers : wr[t].pc = "data" /\ Len(wr[t].rest) = 1

\* C13: no byte of a new generation lands in a page before the page's
\* version is bumped: a byte is never written over the range of a receipt
\* that is still redeemable.
Covers(k, pos) ==
    LET r == issued[k].r
        start == r.page_id * page_size + r.page_offset
    IN start <= pos /\ pos < start + r.length

BumpBeforeWrite ==
    [][file' # file => \A k \in DOMAIN issued : Covers(k, file_pos) => ~Redeemable(k)]_vars

\* part of a value written over an older receipt of a reused page
BumpBeforeWriteWitness ==
    \E t \in Writers, k \in DOMAIN issued :
        /\ wr[t].pc = "data" /\ wr[t].rest # <<>>
        /\ Len(wr[t].rest) < Len(serialize(wr[t].val))
        /\ Covers(k, file_pos - 1)
        /\ pages[issued[k].r.page_id] = issued[k].r.version + 1

\* C14: the version of a page is never below that of a receipt issued for
\* it, and a read of an issued receipt is a miss only when the page's
\* version exceeds the receipt's.
MissIsStale ==
    /\ \A k \in DOMAIN issued : pages[issued[k].r.page_id] >= issued[k].r.version
    /\ \A r \in Readers :
          IsRead(r) /\ rd[r].res = Miss => pages[rd[r].req.page_id] > rd[r].req.version

\* a miss for a receipt of page 1, whose versions start at 1
MissIsStaleWitness ==
    \E r \in Readers :
        IsRead(r) /\ rd[r].res = Miss /\ rd[r].req.page_id = 1
\* C15 as stated: for every page i, while versions[i] = 0 the page has
\* never been written; every advance of the cursor into i bumps its version
\* by 1 and leaves every receipt issued for i stale for good.
PageWritten(i) ==
    \/ \E k \in DOMAIN issued : issued[k].r.page_id = i /\ issued[k].r.length > 0
    \/ /\ write_page_id = i
       /\ \E t \in Writers :
             wr[t].pc = "data" /\ Len(wr[t].rest) < Len(serialize(wr[t].val))

EmptyWhileZero(S) == \A i \in S : pages[i] = 0 => ~PageWritten(i)

AdvanceBumps ==
    /\ \A i \in DOMAIN pages :
          write_page_id' = i /\ write_page_id # i
              => /\ pages'[i] = pages[i] + 1
                 /\ \A k \in DOMAIN issued :
                       issued[k].r.page_id = i => pages'[i] > issued[k].r.version
    /\ \A k \in DOMAIN issued : Wrapped(k) => Wrapped(k)'

PageStateMachineOriginal ==
    /\ [](EmptyWhileZero(DOMAIN pages))
    /\ [][AdvanceBumps]_vars

\* C15 amended: the above for every page but page 0, which is written from
\* construction on at version 0, with no bump before its first bytes.
PageStateMachine ==
    /\ [](EmptyWhileZero(DOMAIN pages \ {0}))
    /\ [][AdvanceBumps]_vars

\* page 0 written at version 0, page 1 written at version 1, page 2 empty
PageStateMachineWitness ==
    /\ page_num = 3
    /\ PageWritten(0) /\ pages[0] = 0
    /\ PageWritten(1) /\ pages[1] = 1
    /\ ~PageWritten(2) /\ pages[2] = 0
\* C16: a write that leaves write_offset = P.
\* LastFill(k): receipt k filled its page to the end and only writes of
\* length zero have been made since.
LastFill(k) ==
    /\ write_offset = page_size
    /\ issued[k].r.length > 0
    /\ issued[k].r.page_offset + issued[k].r.length = page_size
    /\ \A j \in DOMAIN issued : j > k => issued[j].r.length = 0

FillRedeemable ==
    \A k \in DOMAIN issued :
        LastFill(k) => Redeemable(k) /\ write_page_id = issued[k].r.page_id

Locks(t) == wr[t].pc = "lock" /\ wr'[t].pc = "data"

Advances == pages' # pages \/ write_page_id' # write_page_id

\* C16 as stated: the write that leaves write_offset = P bumps no version
\* and does not move the cursor, and its receipt stays redeemable until a
\* later write of non-zero length advances the cursor.
ExactFillOriginal ==
    /\ [](FillRedeemable)
    /\ [][\A t \in Writers :
            Locks(t) /\ write_offset' + Len(wr[t].rest) = page_size => ~Advances]_vars

\* C16 amended: once its bytes are written, the write that leaves
\* write_offset = P bumps no version and does not move the cursor (it may
\* have advanced into the page it fills, bumping it, before writing); from
\* then on only a write of non-zero length advances, and until then the
\* receipt stays redeemable.
ExactFill ==
    /\ [](FillRedeemable)
    /\ [][/\ write_offset' = page_size /\ write_offset # page_size => ~Advances
          /\ write_offset = page_size /\ Advances
                => \E t \in Writers : Locks(t) /\ Len(wr[t].rest) > 0]_vars

\* a page filled to the end by a write that did not start it, then a write
\* of length zero, the filling receipt still redeemable
ExactFillWitness ==
    \E k \in DOMAIN issued :
        /\ LastFill(k) /\ k < Len(issued) /\ issued[k].r.page_offset > 0
        /\ Redeemable(k)
\* C17 (scenario S3 beside the caches of Spec): a 16-byte page size, two
\* pages, 6-byte values.
InitS3 == Init \/ new(16, 32, {"w1"}, {"r1"})

S3Value(i) == [w |-> 6, n |-> 600 + i]

ValuesS3 == IF page_size = 16 THEN {S3Value(Len(issued) + 1)} ELSE Values

NextS3 ==
    \/ \E t \in Writers, v \in ValuesS3 : write(t, v)
    \/ \E t \in Writers : write_move(t)
    \/ \E t \in Writers : write_all(t)
    \/ \E t \in Writers : write_data(t)
    \/ \E r \in Readers, k \in DOMAIN issued : read(r, issued[k].r, k)
    \/ \E r \in Readers, req \in Fabricated : read(r, req, 0)
    \/ \E r \in Readers : read_exact(r)
    \/ \E r \in Readers : read_check(r)

SpecS3 == InitS3 /\ [][NextS3]_vars

\* C17: a write of length L advances iff write_offset + L > P; one that
\* advances gets offset 0 in the next page, one that does not is placed
\* where the previous receipt ended.  With P = 16 and 6-byte values the
\* first three receipts are in pages 0, 0, 1 at offsets 0, 6, 0.
Packed(a, b) ==
    IF a.page_offset + a.length + b.length > page_size
    THEN b.page_id = (a.page_id + 1) % page_num /\ b.page_offset = 0
    ELSE b.page_id = a.page_id /\ b.page_offset = a.page_offset + a.length

Place(k) == <<issued[k].r.page_id, issued[k].r.page_offset>>

GreedyPacking ==
    /\ Len(issued) >= 1 => Packed(Receipt(0, 0, 0, 0), issued[1].r)
    /\ \A k \in DOMAIN issued : k > 1 => Packed(issued[k - 1].r, issued[k].r)
    /\ page_size = 16 =>
          /\ Len(issued) >= 1 => Place(1) = <<0, 0>>
          /\ Len(issued) >= 2 => Place(2) = <<0, 6>>
          /\ Len(issued) >= 3 => Place(3) = <<1, 0>>

\* the third 6-byte value of the scenario, read back from page 1
GreedyPackingWitness ==
    /\ page_size = 16 /\ Len(issued) >= 3
    /\ \E r \in Readers : IsRead(r) /\ rd[r].src = 3 /\ rd[r].res = Some(S3Value(3))
\* C18: two threads call write on one cache.
InitMW == \E ps \in 2..MaxPageSize, n \in 2..MaxPages : new(ps, n * ps, {"w1", "w2"}, {})

NextMW ==
    \/ \E t \in Writers, v \in Values : write(t, v)
    \/ \E t \in Writers : write_move(t)
    \/ \E t \in Writers : write_all(t)
    \/ \E t \in Writers : write_data(t)

SpecMW == InitMW /\ [][NextMW]_vars

\* C18: from taking the mutex to releasing it a write is alone: no other
\* thread takes the mutex or touches cursor, versions, file or receipts,
\* and the page version does not move between its bytes and its receipt.
\* So receipts of one page and version never overlap and the bytes of a
\* redeemable receipt are the ones written under it.
Shared == <<pages, write_page_id, write_offset, file_pos, file, issued>>

Serialized ==
    \A t \in Writers :
        /\ manager = t =>
              /\ manager' \in {t, Free}
              /\ wr[t].pc = "data"
              /\ \A u \in Writers \ {t} : wr'[u].pc # "data"
              /\ Shared' # Shared => wr'[t] # wr[t]
              /\ manager' = t => pages' = pages /\ write_page_id' = write_page_id
                                   /\ write_offset' = write_offset
        /\ manager = Free /\ Shared' # Shared => manager' # Free

NoOverlap ==
    \A j, k \in DOMAIN issued :
        /\ j < k
        /\ issued[j].r.page_id = issued[k].r.page_id
        /\ issued[j].r.version = issued[k].r.version
        => issued[j].r.page_offset + issued[j].r.length <= issued[k].r.page_offset

WriterSerialization ==
    /\ [](NoOverlap /\ \A k \in DOMAIN issued : Redeemable(k) => StoredAt(k))
    /\ [][Serialized]_vars

\* two receipts side by side in one page, a third write holding the mutex
\* and a fourth waiting for it
WriterSerializationWitness ==
    /\ \E j, k \in DOMAIN issued :
          /\ j < k /\ issued[j].r.length > 0 /\ issued[k].r.length > 0
          /\ issued[j].r.page_id = issued[k].r.page_id
          /\ issued[j].r.version = issued[k].r.version
    /\ \E t, u \in Writers : wr[t].pc = "data" /\ wr[u].pc = "lock"
\* C19: construction with any page size and capacity up to the bounds,
\* those that new rejects included.
InitNew ==
    \E ps \in 0..MaxPageSize, capacity \in 0..(MaxPageSize * MaxPages) :
        /\ capacity <= MaxPages * ps
        /\ new(ps, capacity, {"w1"}, {"r1"})

SpecNew == InitNew /\ [][Next]_vars

\* C19: P >= 1 and N >= 2 in every cache that is constructed; the cursor
\* is (0, 0) until the first write has taken the mutex, and always has
\* 0 <= write_page_id < N and 0 <= write_offset <= P.
CursorBounds ==
    /\ page_size >= 1
    /\ page_num >= 2
    /\ 0 <= write_page_id /\ write_page_id < page_num
    /\ 0 <= write_offset /\ write_offset <= page_size
    /\ issued = <<>> /\ (\A t \in Writers : wr[t].pc # "data")
          => write_page_id = 0 /\ write_offset = 0

\* one-byte pages: the cursor at the end of the last page
CursorBoundsWitness ==
    /\ page_size = 1
    /\ write_page_id = page_num - 1
    /\ write_offset = page_size
\* C20: the number of page advances made so far (every advance bumps one
\* version by one), and the number that had been made when the cursor
\* stood on receipt r's page at r's version.
RECURSIVE SumVersions(_)
SumVersions(S) ==
    IF S = {} THEN 0
    ELSE LET i == CHOOSE x \in S : TRUE
         IN pages[i] + SumVersions(S \ {i})

TotalAdvances == SumVersions(DOMAIN pages)

AdvancesAt(r) ==
    IF r.page_id = 0 THEN r.version * page_num
    ELSE (r.version - 1) * page_num + r.page_id

AdvancesSince(k) == TotalAdvances - AdvancesAt(issued[k].r)

\* C20: a receipt is issued with no advance after it, every move of the
\* cursor is one advance and nothing else bumps a version, and a receipt is
\* redeemable exactly while fewer than N advances have happened since it
\* was issued.
RetentionWindow ==
    /\ [](LET total == TotalAdvances
          IN \A k \in DOMAIN issued :
                 LET since == total - AdvancesAt(issued[k].r)
                 IN /\ since >= 0
                    /\ Redeemable(k) <=> since < page_num)
    /\ [][/\ issued' # issued
                => TotalAdvances' = AdvancesAt(issued'[Len(issued')].r)
          /\ write_page_id' # write_page_id => TotalAdvances' = TotalAdvances + 1
          /\ pages' # pages => write_page_id' # write_page_id]_vars

\* a receipt read back after N - 1 advances, next to one that is N old
RetentionWindowWitness ==
    /\ \E k \in DOMAIN issued, r \in Readers :
          /\ AdvancesSince(k) = page_num - 1
          /\ issued[k].r.length > 0
          /\ IsRead(r) /\ rd[r].src = k /\ rd[r].res = Some(issued[k].v)
    /\ \E j \in DOMAIN issued :
          AdvancesSince(j) = page_num /\ ~Redeemable(j)
====
